---- MODULE Spec2Model ----
(***************************************************************************)
(* EdgeCheck VS Code extension (vscode-extension/extension.js).            *)
(*                                                                         *)
(* The file holds two variants of the extension.  The first (analyze)      *)
(* keeps its annotations in `collection`; the second (publishFindings,     *)
(* runCurrentFile, scanWorkspace, clearAllDiagnostics) keeps them in       *)
(* `diag` with the per-annotation finding records in `META`.               *)
(*                                                                         *)
(* JavaScript strings are modelled as sequences of symbols, so that        *)
(* String.includes, join, trim and toLowerCase are computed and not        *)
(* assumed.  A missing (undefined) numeric field is the number 0 and a      *)
(* missing string field is the empty string: every read of these fields    *)
(* in the source goes through `x || default`, which treats undefined, 0    *)
(* and '' alike.                                                           *)
(***************************************************************************)
EXTENDS Integers, Sequences, FiniteSets, TLC

VARIABLES
  diag,        \* DiagnosticCollection 'EdgeCheck': uri -> sequence of diagnostics
  META,        \* Map: key string -> finding record
  status,      \* statusLeft: the counters shown in the status bar
  calls,       \* invocations of runCurrentFile / scanWorkspace, with their locals
  docs,        \* uri -> text document (a sequence of lines)
  config,      \* workspace configuration 'edgecheck'
  collection,  \* DiagnosticCollection 'edgecheck' of the analyze variant
  scans,       \* invocations of analyze
  items,       \* the items of one file handed to the dedup/normalize loop
  normalized,  \* its result
  findings,    \* the argument of publishFindings when it is run on its own
  published,   \* what last ran on its own: "never" (nothing, or clear-all),
               \* publishFindings(findings): "once" (it returned), "twice" (run
               \* again, it returned again) or "threw"; or runCurrentFile:
               \* "other" (the engine printed findings) or "crashed"
  before,      \* [diag, META] as that last run found them
  fix,         \* the fix commands: position and locals of fixAllInCurrentFile,
               \* the documents as they were before the last edit, what was shown
  cli          \* one runCliForFile promise: its process, its log, its outcome

vars == <<diag, META, status, calls, docs, config, collection, scans,
          items, normalized, findings, published, before, fix, cli>>

(* ------------------------------ strings ------------------------------ *)

Max(a, b) == IF a >= b THEN a ELSE b

\* String.prototype.includes
Includes(t, p) == \E i \in 0..(Len(t) - Len(p)) : SubSeq(t, i + 1, i + Len(p)) = p

\* String.prototype.startsWith
StartsWith(t, p) == Len(t) >= Len(p) /\ SubSeq(t, 1, Len(p)) = p

RECURSIVE TrimLeft(_)
TrimLeft(s) == IF s # <<>> /\ Head(s) = " " THEN TrimLeft(Tail(s)) ELSE s

RECURSIVE TrimRight(_)
TrimRight(s) ==
  IF s # <<>> /\ s[Len(s)] = " " THEN TrimRight(SubSeq(s, 1, Len(s) - 1)) ELSE s

\* String.prototype.trim
Trim(s) == TrimRight(TrimLeft(s))

\* Array.prototype.join
RECURSIVE Join(_, _)
Join(parts, sep) ==
  IF parts = <<>> THEN <<>>
  ELSE IF Len(parts) = 1 THEN parts[1]
  ELSE parts[1] \o sep \o Join(Tail(parts), sep)

\* String(n) for a number
NumStr(n) == <<ToString(n)>>

\* x || d for a number, x || d for a string
OrNum(x, d) == IF x = 0 THEN d ELSE x
OrStr(s, d) == IF s = <<>> THEN d ELSE s

\* String.prototype.toLowerCase on a severity
ToLowerCase(s) ==
  CASE s \in {"Error", "ERROR"}     -> "error"
    [] s \in {"Warning", "WARNING"} -> "warning"
    [] s \in {"Info", "INFO"}       -> "info"
    [] s \in {"Hint", "HINT"}       -> "hint"
    [] OTHER                        -> s

EC999 == <<"EC999">>
EC001 == <<"EC00", "1">>
EC002 == <<"EC00", "2">>
EC0011 == <<"EC00", "1", "1">>

\* Array.from(new Set(xs)): the distinct elements in first-occurrence order
RECURSIVE Distinct(_)
Distinct(xs) ==
  IF xs = <<>> THEN <<>>
  ELSE LET init == Distinct(SubSeq(xs, 1, Len(xs) - 1))
           last == xs[Len(xs)]
       IN IF \E i \in 1..Len(init) : init[i] = last THEN init ELSE Append(init, last)

(* ------------------------------- paths ------------------------------- *)

RepoRoot == <<"/", "ws">>

IsAbsolute(file) == file # <<>> /\ file[1] = "/"

\* path.normalize: drops the "." segments
PathNormalize(p) == SelectSeq(p, LAMBDA seg : seg # ".")

\* abs = path.isAbsolute(file) ? file : path.join(repoRoot(), file); norm = path.normalize(abs)
NormPath(file) == PathNormalize(IF IsAbsolute(file) THEN file ELSE RepoRoot \o file)

(* ---------------------- dedup and normalization ---------------------- *)

exactKey(it) ==
  Join(<< NumStr(OrNum(it.line, 1)),
          NumStr(OrNum(it.start_col, 0)),
          NumStr(OrNum(it.end_col, OrNum(it.start_col, 0) + 1)),
          OrStr(it.code, EC999),
          OrStr(it.message, OrStr(it.title, <<>>)) >>, <<":">>)

NormalizeItem(it) ==
  [it EXCEPT
     !.line      = Max(1, OrNum(it.line, 1)),
     !.start_col = Max(0, OrNum(it.start_col, 0)),
     !.end_col   = Max(OrNum(it.start_col, 0) + 1,
                       OrNum(it.end_col, OrNum(it.start_col, 0) + 1)),
     !.severity  = ToLowerCase(IF it.severity = "" THEN "warning" ELSE it.severity)]

RECURSIVE NormalizeLoop(_, _, _)
NormalizeLoop(its, seen, acc) ==
  IF its = <<>> THEN acc
  ELSE LET it  == Head(its)
           key == exactKey(it)
       IN IF key \in seen
          THEN NormalizeLoop(Tail(its), seen, acc)
          ELSE NormalizeLoop(Tail(its), seen \cup {key}, Append(acc, NormalizeItem(it)))

Normalized(its) == NormalizeLoop(its, {}, <<>>)

(* ------------------------------ coalesce ----------------------------- *)

\* function msg(it)
msg(it) == Trim(OrStr(it.message, OrStr(it.title, <<>>)))

\* function seed(it)
seed(it) == [it EXCEPT !.msgs = <<msg(it)>>, !.codes = <<OrStr(it.code, EC999)>>]

MergeKeepingEnd(curr, it) ==
  [curr EXCEPT
     !.msgs  = Append(curr.msgs, msg(it)),
     !.codes = Distinct(Append(curr.codes, OrStr(it.code, EC999)))]

\* the merge branch of the sweep; codes is a Set in insertion order
MergeInto(curr, it) ==
  [curr EXCEPT
     !.end_col = Max(curr.end_col, it.end_col),
     !.msgs    = Append(curr.msgs, msg(it)),
     !.codes   = Distinct(Append(curr.codes, OrStr(it.code, EC999)))]

\* function fin(o)
fin(o) ==
  [o EXCEPT
     !.mergedMessage = Join(Distinct(o.msgs), <<" ", "(bullet)", " ">>),
     !.mergedCode    = Join(o.codes, <<",">>)]

\* the key of the groups Map: `${it.line}:${it.severity}`
GroupKey(it) == NumStr(it.line) \o <<":", it.severity>>

\* arr.sort((a, b) => a.start_col - b.start_col), a stable sort
RECURSIVE SortByStart(_)
SortByStart(arr) ==
  IF arr = <<>> THEN <<>>
  ELSE LET init == SortByStart(SubSeq(arr, 1, Len(arr) - 1))
           x    == arr[Len(arr)]
           k    == Cardinality({i \in 1..Len(init) : init[i].start_col <= x.start_col})
       IN SubSeq(init, 1, k) \o <<x>> \o SubSeq(init, k + 1, Len(init))

\* the sweep over one sorted group; curr is <<>> (null) or <<record>>
RECURSIVE Sweep(_, _, _)
Sweep(arr, curr, out) ==
  IF arr = <<>>
  THEN IF curr = <<>> THEN out ELSE Append(out, fin(curr[1]))
  ELSE LET it == Head(arr)
       IN IF curr = <<>>
          THEN Sweep(Tail(arr), <<seed(it)>>, out)
          ELSE IF it.start_col <= curr[1].end_col + 1
               THEN Sweep(Tail(arr), <<MergeInto(curr[1], it)>>, out)
               ELSE Sweep(Tail(arr), <<seed(it)>>, Append(out, fin(curr[1])))

RECURSIVE CoalesceGroups(_, _)
CoalesceGroups(keys, norm) ==
  IF keys = <<>> THEN <<>>
  ELSE Sweep(SortByStart(SelectSeq(norm, LAMBDA it : GroupKey(it) = Head(keys))), <<>>, <<>>)
       \o CoalesceGroups(Tail(keys), norm)

\* lines 380-407: coalesced = normalized, or the groups' sweeps in insertion order
Coalesced(norm, doCoalesce) ==
  IF doCoalesce
  THEN CoalesceGroups(Distinct([i \in 1..Len(norm) |-> GroupKey(norm[i])]), norm)
  ELSE norm

(* ---------------------------- suppression ---------------------------- *)

maxBack == 2

MarkerSpace(code)   == <<"#", " ", "edgecheck:", " ", "ignore", " ">> \o code
MarkerNoSpace(code) == <<"#", " ", "edgecheck:", "ignore", " ">> \o code

\* t.includes(`# edgecheck: ignore ${code}`) || t.includes(`# edgecheck:ignore ${code}`)
LineMatches(t, code) == Includes(t, MarkerSpace(code)) \/ Includes(t, MarkerNoSpace(code))

\* doc.lineAt throws past the last line and openTextDocument rejects for a file
\* that cannot be opened; both are caught and give false
SuppressedWhenUnreadable(doc, zeroBasedLine, code) ==
  IF ~doc.open THEN TRUE
  ELSE IF Max(0, zeroBasedLine) >= Len(doc.lines) THEN TRUE
  ELSE \E i \in Max(0, zeroBasedLine - maxBack)..Max(0, zeroBasedLine) :
         LineMatches(doc.lines[i + 1], code)

lineHasIgnoreComment(doc, zeroBasedLine, code) ==
  IF ~doc.open THEN FALSE
  ELSE IF Max(0, zeroBasedLine) >= Len(doc.lines) THEN FALSE
  ELSE \E i \in Max(0, zeroBasedLine - maxBack)..Max(0, zeroBasedLine) :
         LineMatches(doc.lines[i + 1], code)

(* ---------------------------- diagnostics ---------------------------- *)

\* the severity of the vscode.Diagnostic
DiagnosticSeverity(severity) ==
  CASE severity = "error" -> "Error"
    [] severity = "info"  -> "Information"
    [] severity = "hint"  -> "Hint"
    [] OTHER              -> "Warning"

\* lines 414-424: the vscode.Diagnostic built from a coalesced item
MkDiagnostic(it) ==
  [line     |-> it.line - 1,
   start    |-> it.start_col,
   end      |-> it.end_col,
   message  |-> OrStr(it.mergedMessage,
                      OrStr(it.message, OrStr(it.title, <<"EdgeCheck finding">>))),
   severity |-> DiagnosticSeverity(it.severity),
   code     |-> OrStr(it.mergedCode, OrStr(it.code, EC999))]

\* `${norm}:${line0}:${it.start_col}:${it.end_col}`
MetaKey(norm, line0, startc, endc) ==
  Join(<<norm, NumStr(line0), NumStr(startc), NumStr(endc)>>, <<":">>)

\* new vscode.Range -> new vscode.Position throws on a negative character
RangeThrows(it) == it.line - 1 < 0 \/ it.start_col < 0 \/ it.end_col < 0

EmptyMap == [k \in {} |-> 0]

\* Map.prototype.set
MapSet(m, key, val) == [k \in DOMAIN m \cup {key} |-> IF k = key THEN val ELSE m[k]]

\* metaForDiagnostic: META.get of the key built from the annotation's range;
\* <<>> is undefined
metaForDiagnostic(m, fsPath, d) ==
  LET key == MetaKey(fsPath, d.line, d.start, d.end)
  IN IF key \in DOMAIN m THEN <<m[key]>> ELSE <<>>

\* /timeout/i.test(f.title || '') || /timeout/i.test(f.message || '')
isTimeout(f) ==
  \/ \E i \in 1..Len(f.title) : f.title[i] \in {"timeout", "Timeout"}
  \/ \E i \in 1..Len(f.message) : f.message[i] \in {"timeout", "Timeout"}

\* lines 343-350: the byFile Map, as its entries <<file, items>> in insertion order
RECURSIVE ByFileLoop(_, _, _)
ByFileLoop(fs, hideTimeouts, acc) ==
  IF fs = <<>> THEN acc
  ELSE LET f == Head(fs)
       IN IF f.file = <<>> \/ (hideTimeouts /\ isTimeout(f))
          THEN ByFileLoop(Tail(fs), hideTimeouts, acc)
          ELSE IF \E i \in 1..Len(acc) : acc[i].file = f.file
               THEN ByFileLoop(Tail(fs), hideTimeouts,
                      [i \in 1..Len(acc) |->
                         IF acc[i].file = f.file
                         THEN [acc[i] EXCEPT !.items = Append(@, f)]
                         ELSE acc[i]])
               ELSE ByFileLoop(Tail(fs), hideTimeouts,
                      Append(acc, [file |-> f.file, items |-> <<f>>]))

ByFile(fs, hideTimeouts) == ByFileLoop(fs, hideTimeouts, <<>>)

(* ------------------------- publishFindings --------------------------- *)

UriA == <<"/", "ws", "a.py">>
UriB == <<"/", "ws", "b.py">>
Uris == {UriA, UriB}

\* the collection with no entry
Cleared == [u \in Uris |-> <<>>]

\* diag.clear()
NoClear(d) == d

DiagClear(d) == [u \in Uris |-> <<>>]

\* META.clear()
NoMetaClear(m) == m

MetaClear(m) == EmptyMap

\* lines 352-407 for every entry of byFile: the file with its coalesced items
Groups(fs, cfg) ==
  LET byFile == ByFile(fs, cfg.hideTimeouts)
  IN [i \in 1..Len(byFile) |->
        [file  |-> byFile[i].file,
         items |-> Coalesced(Normalized(byFile[i].items), cfg.coalesceOverlapping)]]

\* lines 410-428, one iteration of the loop over coalesced, on the locals
\* st = [META, ds, threw]
PublishItem(st, norm, it, doc) ==
  IF lineHasIgnoreComment(doc, it.line - 1, OrStr(it.code, EC999)) THEN st
  ELSE IF RangeThrows(it) THEN [st EXCEPT !.threw = TRUE]
  ELSE [st EXCEPT
          !.META = MapSet(st.META, MetaKey(norm, it.line - 1, it.start_col, it.end_col), it),
          !.ds   = Append(st.ds, MkDiagnostic(it))]

\* countSeverities()
RECURSIVE CountAll(_, _, _)
CountAll(d, us, sev) ==
  IF us = {} THEN 0
  ELSE LET u == CHOOSE x \in us : TRUE
       IN Cardinality({i \in 1..Len(d[u]) : d[u][i].severity = sev})
          + CountAll(d, us \ {u}, sev)

countSeverities(d) ==
  [errors |-> CountAll(d, Uris, "Error"), warnings |-> CountAll(d, Uris, "Warning")]

\* diag.set(uri, ds)
DiagSet(d, uri, ds) == [d EXCEPT ![uri] = ds]

\* publishFindings run from its first statement to its return with no other
\* code running at its awaits: the state [diag, META, status, threw] it leaves
RECURSIVE PublishItems(_, _, _, _)
PublishItems(st, norm, its, doc) ==
  IF its = <<>> \/ st.threw THEN st
  ELSE PublishItems(PublishItem(st, norm, Head(its), doc), norm, Tail(its), doc)

RECURSIVE PublishGroups(_, _, _)
PublishGroups(st, gs, ds) ==
  IF gs = <<>> THEN [st EXCEPT !.status = countSeverities(st.diag)]
  ELSE LET norm == NormPath(Head(gs).file)
           r    == PublishItems([META |-> st.META, ds |-> <<>>, threw |-> FALSE],
                                norm, Head(gs).items, ds[norm])
       IN IF r.threw
          THEN [st EXCEPT !.META = r.META, !.threw = TRUE]
          ELSE PublishGroups([st EXCEPT !.META = r.META,
                                        !.diag = DiagSet(st.diag, norm, r.ds)],
                             Tail(gs), ds)

PublishAllStale(fs, st, ds, cfg) ==
  LET r == PublishGroups([diag |-> Cleared, META |-> EmptyMap,
                          status |-> st.status, threw |-> FALSE],
                         Groups(fs, cfg), ds)
  IN [r EXCEPT !.diag = [u \in Uris |-> st.diag[u] \o r.diag[u]]]

PublishAll(fs, st, ds, cfg) ==
  PublishGroups([diag |-> DiagClear(st.diag), META |-> MetaClear(st.META),
                 status |-> st.status, threw |-> FALSE],
                Groups(fs, cfg), ds)

(* ------------------------------ inputs ------------------------------- *)

MaxFindings == 2
MaxItems == 2

Finding(file, line, startc, endc, code, severity, message) ==
  [file |-> file, line |-> line, start_col |-> startc, end_col |-> endc,
   code |-> code, severity |-> severity, title |-> <<>>, message |-> message,
   function |-> <<"divide">>,
   msgs |-> <<>>, codes |-> <<>>, mergedMessage |-> <<>>, mergedCode |-> <<>>]

ZDE == <<"ZeroDivisionError">>
IxE == <<"IndexError">>

RelA == <<"a.py">>

\* all sequences over U of length at most n
SeqsUpTo(U, n) == UNION {[1..k -> U] : k \in 0..n}

\* source lines
PlainLine == <<"return", " ", "a", "/", "b">>
IgnoreLine(code) == <<" ", " ">> \o MarkerSpace(code)
IgnoreLineNoSpace(code) == MarkerNoSpace(code)

Doc(lines) == [open |-> TRUE, lines |-> lines]
Unreadable == [open |-> FALSE, lines |-> <<>>]

\* what the engine prints in the concurrent runs
EngineFindings ==
  { Finding(RelA, 1, 0, 2, EC001, "warning", ZDE),
    Finding(RelA, 1, 2, 4, EC002, "warning", IxE),
    Finding(UriB, 0, 0, 1, EC001, "Error", ZDE) }

Workspace == <<".">>

\* the finding lists a scan of `target` may print: a file scan reports the
\* findings of that file, a workspace scan those of any file
Outputs(target) ==
  SeqsUpTo({f \in EngineFindings : target = Workspace \/ NormPath(f.file) = target},
           MaxFindings)

EngineDocs ==
  { [u \in Uris |-> IF u = UriA THEN Doc(a) ELSE Doc(<<PlainLine>>)] :
      a \in { <<PlainLine, PlainLine, PlainLine>>,
              <<IgnoreLine(EC002), PlainLine, PlainLine>> } }

Configs == [hideTimeouts : BOOLEAN, coalesceOverlapping : BOOLEAN, showInfo : BOOLEAN]

(* --------------------------- state machine --------------------------- *)

Calls == {1, 2}

IdleCall ==
  [pc |-> "idle", target |-> <<>>, parseError |-> FALSE, closeSeq |-> 0,
   findings |-> <<>>, groups |-> <<>>, gi |-> 0, ii |-> 0, ds |-> <<>>]

\* fixAllInCurrentFile not invoked, no edit applied, nothing shown
IdleFix ==
  [pc |-> "idle",        \* position of fixAllInCurrentFile
   edit |-> <<>>,        \* its WorkspaceEdit
   insertedAt |-> {},    \* its set of keys
   shown |-> "",         \* the last message shown to the user
   applied |-> 0,        \* edits applied so far
   last |-> "none",      \* what happened last: "scan", "declined", "nothing",
                         \* "threw", "failed", "fixall", or the kind of quick fix
   editOf |-> <<>>,      \* the inserts of the last edit applied
   docBefore |-> <<>>,   \* the lines of the document before the last apply
   picked |-> <<>>,      \* the annotation of the last quick fix applied
   producedBy |-> <<>>,  \* the findings published when it was applied
   edited |-> FALSE]     \* a fix edited the document and no publish of a scan
                         \* of it has completed since

\* runCliForFile not called
IdleCli ==
  [pc |-> "idle",        \* "spawned", "resolved", "hung", "done"
   runs |-> 0,           \* scans started so far
   log |-> <<>>,         \* the lines the current scan wrote to the output channel
   event |-> "none",     \* the event the child process emitted: "error", "close"
   code |-> 0,           \* its exit code
   out |-> "",           \* what it printed: "doc", "null", "array", "text"
   resolved |-> <<>>,    \* the value the promise resolved to, <<>> while pending
   escaped |-> FALSE]    \* an exception left the extension's code

InitBase ==
  /\ diag = Cleared
  /\ META = EmptyMap
  /\ status = [errors |-> 0, warnings |-> 0]
  /\ calls = [c \in Calls |-> IdleCall]
  /\ collection = Cleared
  /\ scans = <<>>
  /\ normalized = <<>>
  /\ published = "never"
  /\ before = [diag |-> Cleared, META |-> EmptyMap]
  /\ fix = IdleFix
  /\ cli = IdleCli

Init ==
  /\ InitBase
  /\ docs \in EngineDocs
  /\ config \in {c \in Configs : ~c.hideTimeouts /\ ~c.showInfo}
  /\ items = <<>>
  /\ findings = <<>>

others == <<docs, config, collection, scans, items, normalized, findings, published,
            before, fix, cli>>

\* invocation records are taken in order
Free(c) == calls[c].pc = "idle" /\ \A d \in Calls : d < c => calls[d].pc # "idle"

\* runCurrentFile up to `await runCliForFile(doc.fileName)`
RunCurrentFile(c, u) ==
  /\ Free(c)
  /\ calls' = [calls EXCEPT ![c] = [IdleCall EXCEPT !.pc = "cli", !.target = u]]
  /\ UNCHANGED <<diag, META, status, others>>

\* scanWorkspace up to `await runCliForWorkspace()`
ScanWorkspace(c) ==
  /\ Free(c)
  /\ calls' = [calls EXCEPT ![c] = [IdleCall EXCEPT !.pc = "cli", !.target = Workspace]]
  /\ UNCHANGED <<diag, META, status, others>>

\* number of calls whose process has closed
Closed == Cardinality({c \in Calls : calls[c].pc \notin {"idle", "cli"}})

\* ps.on('close'): the promise resolves with the parsed document, or with
\* { findings: [] } when JSON.parse throws; the caller then enters
\* publishFindings, which runs to its first await, or to its end when no
\* file has an item
CliClose(c, ok, fs) ==
  /\ calls[c].pc = "cli"
  /\ fs \in Outputs(calls[c].target)
  /\ LET res == IF ok THEN fs ELSE <<>>
         gs  == Groups(res, config)
         me  == [calls[c] EXCEPT !.parseError = ~ok, !.closeSeq = Closed + 1,
                                 !.findings = res]
     IN /\ diag' = DiagClear(diag)
        /\ META' = MetaClear(META)
        /\ IF gs = <<>>
           THEN /\ status' = countSeverities(diag')
                /\ calls' = [calls EXCEPT ![c] = [me EXCEPT !.pc = "done"]]
           ELSE /\ status' = status
                /\ calls' = [calls EXCEPT ![c] =
                               [me EXCEPT !.pc = "publishing", !.groups = gs,
                                          !.gi = 1, !.ii = 1, !.ds = <<>>]]
  /\ UNCHANGED others

\* publishFindings from the resumption of `await lineHasIgnoreComment(...)` for
\* item ii of file gi to the next await, or to the end of runCurrentFile /
\* scanWorkspace
PublishResume(c) ==
  /\ calls[c].pc = "publishing"
  /\ LET me   == calls[c]
         g    == me.groups[me.gi]
         norm == NormPath(g.file)
     IN \E r \in {PublishItem([META |-> META, ds |-> me.ds, threw |-> FALSE],
                               norm, g.items[me.ii], docs[norm])} :
        IF r.threw
        THEN /\ calls' = [calls EXCEPT ![c] = [me EXCEPT !.pc = "failed"]]
             /\ UNCHANGED <<diag, META, status>>
        ELSE /\ META' = r.META
             /\ IF me.ii < Len(g.items)
                THEN /\ calls' = [calls EXCEPT ![c] = [me EXCEPT !.ii = me.ii + 1, !.ds = r.ds]]
                     /\ UNCHANGED <<diag, status>>
                ELSE /\ diag' = DiagSet(diag, norm, r.ds)
                     /\ IF me.gi < Len(me.groups)
                        THEN /\ calls' = [calls EXCEPT ![c] =
                                            [me EXCEPT !.gi = me.gi + 1, !.ii = 1, !.ds = <<>>]]
                             /\ status' = status
                        ELSE /\ calls' = [calls EXCEPT ![c] = [me EXCEPT !.pc = "done", !.ds = <<>>]]
                             /\ status' = countSeverities(diag')
  /\ UNCHANGED others

\* clearAllDiagnostics
ClearAllDiagnostics ==
  /\ diag' = DiagClear(diag)
  /\ META' = MetaClear(META)
  /\ status' = countSeverities(diag')
  /\ published' = "never"
  /\ UNCHANGED <<calls, docs, config, collection, scans, items, normalized, findings,
                 before, fix, cli>>

Next ==
  \/ \E c \in Calls, u \in Uris : RunCurrentFile(c, u)
  \/ \E c \in Calls : ScanWorkspace(c)
  \/ \E c \in Calls, ok \in BOOLEAN, fs \in SeqsUpTo(EngineFindings, MaxFindings) :
       CliClose(c, ok, fs)
  \/ \E c \in Calls : PublishResume(c)
  \/ ClearAllDiagnostics

Spec == Init /\ [][Next]_vars

\* the scan commands alone, with no clear-all between their steps
NextScans ==
  \/ \E c \in Calls, u \in Uris : RunCurrentFile(c, u)
  \/ \E c \in Calls : ScanWorkspace(c)
  \/ \E c \in Calls, ok \in BOOLEAN, fs \in SeqsUpTo(EngineFindings, MaxFindings) :
       CliClose(c, ok, fs)
  \/ \E c \in Calls : PublishResume(c)

SpecScans == Init /\ [][NextScans]_vars

(* ------------ the dedup / normalize loop of one file, alone ----------- *)

ColPairs == {<<0, 0>>, <<0, 1>>, <<-1, 0>>, <<-1, 1>>, <<2, 1>>, <<2, 3>>, <<-3, -5>>}

RawItems ==
  { Finding(RelA, l, p[1], p[2], c, s, ZDE) :
      l \in {-1, 0, 1}, p \in ColPairs, c \in {<<>>, EC001}, s \in {"", "Error"} }

DefaultConfig == [hideTimeouts |-> FALSE, coalesceOverlapping |-> FALSE, showInfo |-> FALSE]

InitNorm ==
  /\ InitBase
  /\ docs = [u \in Uris |-> Doc(<<PlainLine>>)]
  /\ config = DefaultConfig
  /\ items \in SeqsUpTo(RawItems, MaxItems)
  /\ findings = <<>>

\* lines 365-378
NormalizeItems ==
  /\ normalized' = Normalized(items)
  /\ UNCHANGED <<diag, META, status, calls, docs, config, collection, scans, items,
                 findings, published, before, fix, cli>>

NextNorm == NormalizeItems

SpecNorm == InitNorm /\ [][NextNorm]_vars

(* ------ the dedup loop on items that differ in code, message, title ------ *)

\* an item of a.py at line 1, columns [0,1), with the given code, message, title
Item(code, message, title) ==
  [Finding(RelA, 1, 0, 1, code, "warning", message) EXCEPT !.title = title]

DedupItems ==
  { Item(EC001, <<"a", ":", "b">>, <<>>),
    Item(EC001 \o <<":", "a">>, <<"b">>, <<>>),
    Item(EC001, <<"X">>, <<>>),
    Item(EC001, <<>>, <<"X">>),
    Item(EC001, <<"X">>, <<"Y">>),
    Item(EC002, <<"X">>, <<>>),
    Item(<<>>, <<"X">>, <<>>),
    Item(EC999, <<"X">>, <<>>) }

InitDedup ==
  /\ InitBase
  /\ docs = [u \in Uris |-> Doc(<<PlainLine>>)]
  /\ config = DefaultConfig
  /\ items \in SeqsUpTo(DedupItems, MaxItems)
  /\ findings = <<>>

\* lines 365-378 on the items of InitDedup
DedupItemsLoop ==
  /\ normalized = <<>>
  /\ NormalizeItems

SpecDedup == InitDedup /\ [][DedupItemsLoop]_vars

(* ------------- publishFindings run on its own, to its end ------------- *)

PubFindings ==
  { Finding(RelA, 4, 0, 2, EC001, "warning", ZDE),
    Finding(RelA, 4, 2, 4, EC002, "warning", IxE),
    Finding(RelA, 2, 0, 1, <<>>, "INFO", <<"Timeout", " ", "in", " ", "divide">>),
    Finding(RelA, 4, -3, -5, EC002, "", IxE),
    Finding(UriB, 1, 0, 1, EC001, "Error", ZDE),
    Finding(<<>>, 1, 0, 1, EC001, "Error", ZDE) }

\* a five-line document with `line` as its k-th line
DocWith(k, line) == Doc([i \in 1..5 |-> IF i = k THEN line ELSE PlainLine])

PubDocsA ==
  {DocWith(k, IgnoreLine(EC001)) : k \in 0..5}
  \cup { DocWith(3, IgnoreLineNoSpace(EC001)), DocWith(4, IgnoreLine(EC0011)),
         DocWith(4, IgnoreLine(EC002)), Unreadable,
         Doc(<<PlainLine, IgnoreLine(EC001)>>) }

PubDocs == {[u \in Uris |-> IF u = UriA THEN a ELSE Doc(<<PlainLine>>)] : a \in PubDocsA}

InitPub ==
  /\ InitBase
  /\ docs \in PubDocs
  /\ config \in {c \in Configs : ~c.showInfo}
  /\ items = <<>>
  /\ findings \in SeqsUpTo(PubFindings, MaxFindings)

\* publishFindings(findings) with nothing else running at its awaits
PublishFindings ==
  /\ published # "twice"
  /\ \E r \in {PublishAll(findings, [diag |-> diag, META |-> META, status |-> status],
                           docs, config)} :
        /\ diag' = r.diag
        /\ META' = r.META
        /\ status' = r.status
        /\ published' = IF r.threw THEN "threw"
                        ELSE IF published = "once" THEN "twice" ELSE "once"
  /\ before' = [diag |-> diag, META |-> META]
  /\ UNCHANGED <<calls, docs, config, collection, scans, items, normalized, findings,
                 fix, cli>>

\* runCurrentFile from its start to its end with nothing else running at its
\* awaits, for a scan of b.py: the engine prints fs, or crashes / prints no JSON
RunCurrentFileAlone(ok, fs) ==
  /\ ok \/ fs = <<>>
  /\ \E r \in {PublishAll(IF ok THEN fs ELSE <<>>,
                           [diag |-> diag, META |-> META, status |-> status], docs, config)} :
        /\ diag' = r.diag
        /\ META' = r.META
        /\ status' = r.status
        /\ published' = IF r.threw THEN "threw" ELSE IF ok THEN "other" ELSE "crashed"
  /\ before' = [diag |-> diag, META |-> META]
  /\ UNCHANGED <<calls, docs, config, collection, scans, items, normalized, findings,
                 fix, cli>>

NextPub ==
  \/ PublishFindings
  \/ \E ok \in BOOLEAN, fs \in Outputs(UriB) : RunCurrentFileAlone(ok, fs)
  \/ ClearAllDiagnostics

SpecPub == InitPub /\ [][NextPub]_vars

(* ------------------- the analyze variant (lines 1-223) ------------------- *)

\* severityToVs
severityToVs(sev) ==
  CASE ToLowerCase(IF sev = "" THEN "warning" ELSE sev) = "error" -> "Error"
    [] ToLowerCase(IF sev = "" THEN "warning" ELSE sev) = "info"  -> "Information"
    [] OTHER -> "Warning"

\* new vscode.Position(line, character) throws on a negative character
PositionThrows(f) == OrNum(f.start_col, 0) < 0 \/ OrNum(f.end_col, 120) < 0

\* lines 130-143: the diagnostic analyze builds from a finding
AnalyzeDiagnostic(f) ==
  [line     |-> Max(0, OrNum(f.line, 1) - 1),
   start    |-> OrNum(f.start_col, 0),
   end      |-> OrNum(f.end_col, 120),
   message  |-> <<"[">> \o OrStr(f.code, EC999) \o <<"]", " ">>
                  \o OrStr(f.title, OrStr(f.message, <<"undefined">>)),
   severity |-> severityToVs(f.severity),
   code     |-> OrStr(f.code, EC999)]

\* line 128: the INFO filter
InfoFilter(fs, showInfo) ==
  SelectSeq(fs, LAMBDA f : showInfo \/ ToLowerCase(f.severity) # "info")

MaxScans == 2

AnalyzeFindings ==
  { Finding(RelA, 1, 0, 2, EC001, "warning", ZDE),
    Finding(RelA, 2, 0, 0, EC002, "Info", IxE),
    Finding(RelA, 0, 3, 1, <<>>, "", ZDE),
    Finding(RelA, 1, -1, 2, EC001, "Error", ZDE) }

InitA ==
  /\ InitBase
  /\ docs = [u \in Uris |-> Doc(<<PlainLine>>)]
  /\ config \in {c \in Configs : ~c.hideTimeouts /\ ~c.coalesceOverlapping}
  /\ items = <<>>
  /\ findings = <<>>

\* lines 111-118: analyze(document) up to its await of runEdgecheck
Analyze(u) ==
  /\ Len(scans) < MaxScans
  /\ scans' = Append(scans, [uri |-> u, showInfo |-> config.showInfo, pc |-> "run"])
  /\ UNCHANGED <<diag, META, status, calls, docs, config, collection, items,
                 normalized, findings, published, before, fix, cli>>

\* lines 38-45, 119-145: the engine process closes and analyze goes on to its end
AnalyzeClose(s, ok, fs) ==
  /\ s <= Len(scans)
  /\ scans[s].pc = "run"
  /\ ok \/ fs = <<>>
  /\ LET filtered == InfoFilter(fs, scans[s].showInfo)
     IN IF ~ok
        THEN /\ collection' = DiagSet(collection, scans[s].uri, <<>>)
             /\ scans' = [scans EXCEPT ![s].pc = "done"]
        ELSE IF \E i \in 1..Len(filtered) : PositionThrows(filtered[i])
        THEN /\ scans' = [scans EXCEPT ![s].pc = "failed"]
             /\ UNCHANGED collection
        ELSE /\ collection' = DiagSet(collection, scans[s].uri,
                                 [i \in 1..Len(filtered) |-> AnalyzeDiagnostic(filtered[i])])
             /\ scans' = [scans EXCEPT ![s].pc = "done"]
  /\ UNCHANGED <<diag, META, status, calls, docs, config, items, normalized,
                 findings, published, before, fix, cli>>

NextA ==
  \/ \E u \in Uris : Analyze(u)
  \/ \E s \in 1..MaxScans, ok \in BOOLEAN, fs \in SeqsUpTo(AnalyzeFindings, MaxFindings) :
       AnalyzeClose(s, ok, fs)

SpecA == InitA /\ [][NextA]_vars

(* --------------------------- edits and fixes --------------------------- *)

\* the lines of a text: its pieces between line breaks
RECURSIVE SplitLines(_, _)
SplitLines(text, cur) ==
  IF text = <<>> THEN <<cur>>
  ELSE IF Head(text) = "\n" THEN <<cur>> \o SplitLines(Tail(text), <<>>)
  ELSE SplitLines(Tail(text), Append(cur, Head(text)))

\* WorkspaceEdit.insert(uri, position, text) applied to the lines of a document
ApplyInsert(lines, ins) ==
  LET l == lines[ins.line + 1]
      c == IF ins.character > Len(l) THEN Len(l) ELSE ins.character
  IN SubSeq(lines, 1, ins.line)
       \o SplitLines(SubSeq(l, 1, c) \o ins.text \o SubSeq(l, c + 1, Len(l)), <<>>)
       \o SubSeq(lines, ins.line + 2, Len(lines))

\* the inserts of one WorkspaceEdit in document order, inserts at one position
\* in the order they were added
RECURSIVE SortInserts(_)
SortInserts(es) ==
  IF es = <<>> THEN <<>>
  ELSE LET rest == SortInserts(SubSeq(es, 1, Len(es) - 1))
           e    == es[Len(es)]
           Le(x, y) == x.line < y.line \/ (x.line = y.line /\ x.character <= y.character)
           k    == Cardinality({i \in 1..Len(rest) : Le(rest[i], e)})
       IN SubSeq(rest, 1, k) \o <<e>> \o SubSeq(rest, k + 1, Len(rest))

\* all inserts of the edit applied, each at its position in the original lines
RECURSIVE ApplyFromLast(_, _)
ApplyFromLast(lines, es) ==
  IF es = <<>> THEN lines
  ELSE ApplyFromLast(ApplyInsert(lines, es[Len(es)]), SubSeq(es, 1, Len(es) - 1))

ApplyEdits(lines, es) == ApplyFromLast(lines, SortInserts(es))

\* currentIndent: the leading blanks of a line
RECURSIVE LeadingBlanks(_)
LeadingBlanks(t) ==
  IF t # <<>> /\ Head(t) = " " THEN <<" ">> \o LeadingBlanks(Tail(t)) ELSE <<>>

currentIndent(doc, line) == LeadingBlanks(doc.lines[line + 1])

\* document.lineAt(line) throws when the document has no such line
LineAtThrows(doc, line) == ~doc.open \/ line < 0 \/ line >= Len(doc.lines)

zeroGuardMessage == <<"denominator cannot be zero">>

\* lines 479-480, 579-580: the text of the zero-denominator guard
ZeroGuardText(indent) ==
  indent \o <<"if b == 0:", "\n">>
    \o indent \o <<" ", " ", " ", " ", "raise ValueError(">> \o zeroGuardMessage
    \o <<")", "\n">>

\* lines 490-496, 585-591: the text of the bounds guard
BoundsGuardText(indent) ==
  Join(<< indent \o <<"if not isinstance(b, (bytes, bytearray)):">>,
          indent \o <<" ", " ", " ", " ", "raise TypeError(b must be bytes-like)">>,
          indent \o <<"if len(b) <= 100:">>,
          indent \o <<" ", " ", " ", " ", "raise ValueError(buffer too small for index 100)">>,
          <<>> >>, <<"\n">>)

SuppressWithoutCode(indent, codeStr) ==
  indent \o <<"#", " ", "edgecheck:", " ", "ignore", "\n">>

\* line 503: the text of the suppress marker
SuppressText(indent, codeStr) == indent \o MarkerSpace(codeStr) \o <<"\n">>

\* line 512: the text of the test quick fix
TestFixText == <<"#", " ", "edgecheck:", " ", "test quick fix", "\n">>

InsertAtStart(d) == [line |-> d.line, character |-> d.start]

\* where the provider and fix-all insert for an annotation: column 0 of its line
InsertPosition(d) == [line |-> d.line, character |-> 0]

Insert(pos, text) == [line |-> pos.line, character |-> pos.character, text |-> text]

nearbyN == 2

\* lines 454-459: the annotations the provider makes actions for
Candidates(own, caret) ==
  LET hit == SelectSeq(own, LAMBDA d : d.line = caret.line /\ d.start <= caret.character
                                        /\ caret.character <= d.end)
      CaretLine == Max(0, caret.line)
      Abs(x) == IF x < 0 THEN 0 - x ELSE x
  IN IF hit # <<>> THEN hit
     ELSE SelectSeq(own, LAMBDA d : Abs(d.line - CaretLine) <= nearbyN)

\* lines 461-507: the actions the provider makes for one annotation
ActionsFor(doc, d) ==
  LET indent == currentIndent(doc, d.line)
      Action(kind, text) == [kind |-> kind, diagnostic |-> <<d>>,
                             edit |-> <<Insert(InsertPosition(d), text)>>]
  IN (IF Includes(d.code, EC001) THEN <<Action("zero", ZeroGuardText(indent))>> ELSE <<>>)
     \o (IF Includes(d.code, EC002) THEN <<Action("bounds", BoundsGuardText(indent))>> ELSE <<>>)
     \o (IF d.code # <<>> THEN <<Action("suppress", SuppressText(indent, d.code))>> ELSE <<>>)

RECURSIVE ActionsForAll(_, _)
ActionsForAll(doc, ds) ==
  IF ds = <<>> THEN <<>> ELSE ActionsFor(doc, Head(ds)) \o ActionsForAll(doc, Tail(ds))

\* lines 509-514: the test quick fix, always offered
TestFix(caret) ==
  [kind |-> "test", diagnostic |-> <<>>,
   edit |-> <<Insert([line |-> Max(0, caret.line), character |-> 0], TestFixText)>>]

\* EdgeCheckQuickFixProvider.provideCodeActions; currentIndent throws for an
\* annotation on a line the document does not have
provideCodeActions(d, doc, uri, caret) ==
  LET cands == Candidates(d[uri], caret)
  IN IF \E i \in 1..Len(cands) : LineAtThrows(doc, cands[i].line)
     THEN [threw |-> TRUE, actions |-> <<>>]
     ELSE [threw |-> FALSE, actions |-> Append(ActionsForAll(doc, cands), TestFix(caret))]

\* lines 82-87: the apply function of the zero-guard fix of
\* quickFixesForFinding, for a document that has the line after the finding's
ZeroGuardApply(f, doc) ==
  LET line       == Max(0, OrNum(f.line, 1) - 1)
      insertLine == line + 1
      indent     == LeadingBlanks(doc.lines[insertLine + 1])
  IN Insert([line |-> insertLine, character |-> 0], ZeroGuardText(indent))

\* line 563: the annotations of the file sorted by line, a stable sort
RECURSIVE SortByLine(_)
SortByLine(ds) ==
  IF ds = <<>> THEN <<>>
  ELSE LET init == SortByLine(SubSeq(ds, 1, Len(ds) - 1))
           x    == ds[Len(ds)]
           k    == Cardinality({i \in 1..Len(init) : init[i].line <= x.line})
       IN SubSeq(init, 1, k) \o <<x>> \o SubSeq(init, k + 1, Len(init))

\* lines 572-597: the loop of fixAllInCurrentFile over the sorted annotations
RECURSIVE FixAllLoop(_, _, _)
FixAllLoop(doc, ds, acc) ==
  IF ds = <<>> \/ acc.threw THEN acc
  ELSE LET d   == Head(ds)
           key == <<d.line, d.start>>
       IN IF LineAtThrows(doc, d.line) THEN [acc EXCEPT !.threw = TRUE]
          ELSE LET indent == currentIndent(doc, d.line)
                   Add(text) ==
                     IF key \in acc.insertedAt THEN acc
                     ELSE [acc EXCEPT !.edit = Append(@, Insert(InsertPosition(d), text)),
                                      !.insertedAt = @ \cup {key}]
               IN FixAllLoop(doc, Tail(ds),
                    IF Includes(d.code, EC001) THEN Add(ZeroGuardText(indent))
                    ELSE IF Includes(d.code, EC002) THEN Add(BoundsGuardText(indent))
                    ELSE acc)

FixAllEdit(doc, ds) ==
  FixAllLoop(doc, SortByLine(ds), [edit |-> <<>>, insertedAt |-> {}, threw |-> FALSE])

IndentedLine == <<" ", " ", " ", " ", "x", " ", "=", " ", "a", "/", "b">>

\* what the engine may print for a.py: any selection of these findings, in
\* this order
FixFindings ==
  << Finding(RelA, 2, 4, 6, EC001, "warning", ZDE),
     Finding(RelA, 2, 6, 8, EC002, "warning", IxE),
     Finding(RelA, 2, 8, 10, EC001, "info", ZDE) >>

RECURSIVE Selected(_, _)
Selected(fs, keep) ==
  IF fs = <<>> THEN <<>>
  ELSE (IF Len(fs) \in keep THEN <<Head(fs)>> ELSE <<>>) \o Selected(Tail(fs), keep)

FixOutputs == {Selected(FixFindings, keep) : keep \in SUBSET (1..Len(FixFindings))}

FixDoc == Doc(<<PlainLine, IndentedLine, PlainLine>>)

MaxEdits == 1

Carets == {[line |-> 1, character |-> c] : c \in {0, 4, 8}}

InitFix ==
  /\ InitBase
  /\ docs = [u \in Uris |-> IF u = UriA THEN FixDoc ELSE Doc(<<PlainLine>>)]
  /\ config \in {c \in Configs : ~c.hideTimeouts /\ ~c.showInfo}
  /\ items = <<>>
  /\ findings = <<>>

fixOthers == <<calls, config, collection, scans, items, normalized, published, before, cli>>

\* a publish has completed: the record of the last edit is kept only for the
\* publish that follows a suppress quick fix
Scanned(f) ==
  [f EXCEPT !.edited = FALSE,
            !.last = IF f.last = "suppress" THEN "republished" ELSE "scan",
            !.editOf = <<>>,
            !.docBefore = <<>>,
            !.picked = IF f.last = "suppress" THEN @ ELSE <<>>,
            !.producedBy = IF f.last = "suppress" THEN @ ELSE <<>>]

\* the engine's findings for a document that got a line inserted above them:
\* reported sh lines further down
Shifted(fs, sh) == [i \in 1..Len(fs) |-> [fs[i] EXCEPT !.line = @ + sh]]

\* the number of lines an edit adds to the document
LineBreaks(text) == Cardinality({i \in 1..Len(text) : text[i] = "\n"})

RECURSIVE AddedLines(_)
AddedLines(es) ==
  IF es = <<>> THEN 0 ELSE LineBreaks(Head(es).text) + AddedLines(Tail(es))

\* the engine reports lines sh further down only for a document that got sh
\* lines inserted
ShiftAllowed(sh) == sh = 0 \/ (fix.edited /\ AddedLines(fix.editOf) = sh)

\* runCurrentFile on the active document (a.py), from its start to its end
RunFile(fs, f) ==
  \E r \in {PublishAll(fs, [diag |-> diag, META |-> META, status |-> status], docs, config)} :
    /\ ~r.threw
    /\ diag' = r.diag /\ META' = r.META /\ status' = r.status
    /\ findings' = fs
    /\ fix' = Scanned(f)

\* the user runs edgecheck.runFile
ScanFile(fs, sh) ==
  /\ fix.pc \in {"idle", "done"}
  /\ ShiftAllowed(sh)
  /\ RunFile(Shifted(fs, sh), fix)
  /\ UNCHANGED <<docs, fixOthers>>

\* lines 548-559: fixAllInCurrentFile up to its await of runCurrentFile
FixAllInvoke(ans) ==
  /\ fix.pc \in {"idle", "done"}
  /\ fix.applied < MaxEdits
  /\ fix' = IF ans = "Apply"
            THEN [fix EXCEPT !.pc = "scanning", !.edit = <<>>, !.insertedAt = {}]
            ELSE [fix EXCEPT !.pc = "done", !.last = "declined"]
  /\ UNCHANGED <<diag, META, status, docs, findings, fixOthers>>

\* lines 559-602: runCurrentFile has returned; the edit is built and handed to
\* applyEdit
FixAllBuild(fs) ==
  /\ fix.pc = "scanning"
  /\ \E r \in {PublishAll(fs, [diag |-> diag, META |-> META, status |-> status], docs, config)} :
       /\ ~r.threw
       /\ diag' = r.diag /\ META' = r.META /\ status' = r.status
       /\ findings' = fs
       /\ LET ds == r.diag[UriA]
              b  == FixAllEdit(docs[UriA], ds)
              f  == Scanned(fix)
          IN fix' =
               IF ds = <<>>
               THEN [f EXCEPT !.pc = "done", !.last = "nothing",
                              !.shown = "no diagnostics to fix in this file"]
               ELSE IF b.threw THEN [f EXCEPT !.pc = "done", !.last = "threw"]
               ELSE IF b.insertedAt = {}
               THEN [f EXCEPT !.pc = "done", !.last = "nothing",
                              !.shown = "nothing applicable to fix automatically"]
               ELSE [f EXCEPT !.pc = "applying", !.edit = b.edit,
                              !.insertedAt = b.insertedAt]
  /\ UNCHANGED <<docs, fixOthers>>

IgnoreApplyResult(ok) == [pc |-> "rescanning", shown |-> "applied guards"]

\* lines 603-611: what fixAllInCurrentFile does with the result of applyEdit
AfterApply(ok) ==
  IF ok THEN [pc |-> "rescanning", shown |-> "applied guards"]
  ELSE [pc |-> "done", shown |-> "could not apply edits"]

\* line 603: vscode.workspace.applyEdit applies the whole edit or nothing
ApplyEdit(ok) ==
  /\ fix.pc = "applying"
  /\ docs' = IF ok THEN [docs EXCEPT ![UriA].lines = ApplyEdits(@, fix.edit)] ELSE docs
  /\ fix' = [fix EXCEPT !.pc = AfterApply(ok).pc,
                        !.shown = AfterApply(ok).shown,
                        !.last = IF ok THEN "fixall" ELSE "failed",
                        !.applied = IF ok THEN @ + 1 ELSE @,
                        !.editOf = fix.edit,
                        !.docBefore = docs[UriA].lines,
                        !.picked = <<>>,
                        !.producedBy = <<>>,
                        !.edited = IF ok THEN TRUE ELSE @]
  /\ UNCHANGED <<diag, META, status, findings, fixOthers>>

\* line 608: the second runCurrentFile of fixAllInCurrentFile has returned
FixAllRescan(fs, sh) ==
  /\ fix.pc = "rescanning"
  /\ ShiftAllowed(sh)
  /\ RunFile(Shifted(fs, sh), [fix EXCEPT !.pc = "done"])
  /\ UNCHANGED <<docs, fixOthers>>

\* the user opens the light bulb at the caret, picks the k-th action and the
\* editor applies its edit
QuickFix(caret, k) ==
  /\ fix.pc \in {"idle", "done"}
  /\ fix.applied < MaxEdits
  /\ caret.line < Len(docs[UriA].lines)
  /\ \E r \in {provideCodeActions(diag, docs[UriA], UriA, caret)} :
       /\ k <= Len(r.actions)
       /\ docs' = [docs EXCEPT ![UriA].lines = ApplyEdits(@, r.actions[k].edit)]
       /\ fix' = [fix EXCEPT !.last = r.actions[k].kind,
                             !.applied = @ + 1,
                             !.editOf = r.actions[k].edit,
                             !.docBefore = docs[UriA].lines,
                             !.picked = r.actions[k].diagnostic,
                             !.producedBy = findings,
                             !.edited = TRUE]
  /\ UNCHANGED <<diag, META, status, findings, fixOthers>>

MaxActions == 7

Shifts == {0, 1}

NextFix ==
  \/ \E fs \in FixOutputs, sh \in Shifts : ScanFile(fs, sh)
  \/ \E ans \in {"Apply", "Cancel"} : FixAllInvoke(ans)
  \/ \E fs \in FixOutputs : FixAllBuild(fs)
  \/ \E ok \in BOOLEAN : ApplyEdit(ok)
  \/ \E fs \in FixOutputs, sh \in Shifts : FixAllRescan(fs, sh)
  \/ \E caret \in Carets, k \in 1..MaxActions : QuickFix(caret, k)

SpecFix == InitFix /\ [][NextFix]_vars

\* the steps of a running fixAllInCurrentFile are taken once their awaited
\* promise settles; what the user does (scan, fix-all, light bulb) may never
\* happen
SpecFixLive ==
  /\ SpecFix
  /\ WF_vars(\E fs \in FixOutputs : FixAllBuild(fs))
  /\ WF_vars(\E ok \in BOOLEAN : ApplyEdit(ok))
  /\ WF_vars(\E fs \in FixOutputs, sh \in Shifts : FixAllRescan(fs, sh))

(* ------------------- runCliForFile and its caller -------------------- *)

\* the values JSON.parse can give for what the engine prints
JsonDocument(fs) == [type |-> "object", findings |-> fs]
JsonNull == [type |-> "null", findings |-> <<>>]
JsonArray == [type |-> "array", findings |-> <<>>]

\* line 307: { version: '0.1.0', findings: [] }
EmptyDocument == JsonDocument(<<>>)

\* what the engine prints: a finding document, the JSON texts null and [],
\* or text that is not JSON (the empty output included)
Stdouts ==
  {[kind |-> "doc", findings |-> fs] : fs \in Outputs(UriA)}
    \cup {[kind |-> k, findings |-> <<>>] : k \in {"null", "array", "text"}}

Stderrs == {<<>>, <<"Traceback">>}

ExitCodes == {0, 1}

CommandLine == <<"$ python3 -m cli.main">>
ParseErrorLine == <<"JSON parse error or non-zero exit">>

\* lines 303-309: the close handler; JSON.parse throws for text that is not
\* JSON; the exit code goes into the log line of the catch branch only
ResolveOnClose(c, code, out, err) ==
  LET logged == IF err # <<>> THEN Append(c.log, err) ELSE c.log
  IN IF out.kind = "text"
     THEN [c EXCEPT !.pc = "resolved", !.event = "close", !.code = code,
                    !.out = out.kind, !.log = Append(logged, ParseErrorLine),
                    !.resolved = <<EmptyDocument>>]
     ELSE [c EXCEPT !.pc = "resolved", !.event = "close", !.code = code,
                    !.out = out.kind, !.log = logged,
                    !.resolved = << CASE out.kind = "doc" -> JsonDocument(out.findings)
                                      [] out.kind = "null" -> JsonNull
                                      [] OTHER -> JsonArray >>]

MaxRuns == 2

InitCli ==
  /\ InitBase
  /\ docs \in EngineDocs
  /\ config \in {c \in Configs : ~c.hideTimeouts /\ ~c.showInfo}
  /\ items = <<>>
  /\ findings = <<>>

cliOthers == <<calls, docs, config, collection, scans, items, normalized, published,
               before, fix>>

\* lines 521-529, 292-299: runCurrentFile calls runCliForFile, which logs the
\* command line and spawns the engine
CliStart ==
  /\ cli.pc \in {"idle", "done"}
  /\ cli.runs < MaxRuns
  /\ cli' = [IdleCli EXCEPT !.pc = "spawned", !.runs = cli.runs + 1,
                            !.log = <<CommandLine>>]
  /\ UNCHANGED <<diag, META, status, findings, cliOthers>>

\* the engine cannot be started: the child process emits 'error', for which
\* no listener is registered (lines 299-310), so the event is thrown as an
\* exception outside the promise; whether 'close' is still emitted afterwards
\* depends on the runtime
CliSpawnError(closes) ==
  /\ cli.pc = "spawned"
  /\ cli' = IF closes
            THEN [ResolveOnClose(cli, 1, [kind |-> "text", findings |-> <<>>], <<>>)
                    EXCEPT !.event = "error", !.escaped = TRUE]
            ELSE [cli EXCEPT !.pc = "hung", !.event = "error", !.code = 1,
                             !.out = "text", !.escaped = TRUE]
  /\ UNCHANGED <<diag, META, status, findings, cliOthers>>

\* lines 303-309: the engine ran and its streams closed
CliExit(code, out, err) ==
  /\ cli.pc = "spawned"
  /\ cli' = ResolveOnClose(cli, code, out, err)
  /\ UNCHANGED <<diag, META, status, findings, cliOthers>>

\* lines 530-541: runCurrentFile goes on with the resolved value; reading
\* .findings of null throws, of an array gives undefined
CliCaller ==
  /\ cli.pc = "resolved"
  /\ LET res == cli.resolved[1]
         fs  == res.findings
         r   == PublishAll(fs, [diag |-> diag, META |-> META, status |-> status],
                           docs, config)
     IN IF res.type = "null"
        THEN /\ cli' = [cli EXCEPT !.pc = "done", !.escaped = TRUE]
             /\ UNCHANGED <<diag, META, status, findings>>
        ELSE /\ cli' = [cli EXCEPT !.pc = "done",
                                   !.log = Append(@, <<"findings for a.py:", NumStr(Len(fs))>>),
                                   !.escaped = @ \/ r.threw]
             /\ diag' = r.diag /\ META' = r.META /\ status' = r.status
             /\ findings' = fs
  /\ UNCHANGED cliOthers

NextCli ==
  \/ CliStart
  \/ \E closes \in BOOLEAN : CliSpawnError(closes)
  \/ \E code \in ExitCodes, out \in Stdouts, err \in Stderrs : CliExit(code, out, err)
  \/ CliCaller

SpecCli == InitCli /\ [][NextCli]_vars

(* ------------- publishFindings on findings that share lines ------------ *)

\* findings of a.py on lines 2 and 3: spans that touch ([0,4) and [4,10)), lie
\* one column apart ([0,4) and [5,7)), lie further apart ([4,10) and [12,15),
\* bridged by [9,11)), and equal spans that differ in severity or line
CoalFindings ==
  { Finding(RelA, 2, 0, 4, EC001, "warning", ZDE),
    Finding(RelA, 2, 4, 10, EC002, "warning", IxE),
    Finding(RelA, 2, 5, 7, EC002, "warning", ZDE),
    Finding(RelA, 2, 12, 15, EC002, "warning", IxE),
    Finding(RelA, 2, 9, 11, EC001, "warning", ZDE),
    Finding(RelA, 2, 0, 4, EC002, "error", IxE),
    Finding(RelA, 3, 0, 4, EC001, "warning", ZDE) }

MaxCoal == 3

CoalDocs ==
  {[u \in Uris |-> IF u = UriA THEN a ELSE Doc(<<PlainLine>>)] :
     a \in {DocWith(0, PlainLine), DocWith(1, IgnoreLine(EC001)),
            DocWith(1, IgnoreLine(EC002))}}

InitCoal ==
  /\ InitBase
  /\ docs \in CoalDocs
  /\ config \in {c \in Configs : ~c.hideTimeouts /\ ~c.showInfo}
  /\ items = <<>>
  /\ findings \in SeqsUpTo(CoalFindings, MaxCoal)

\* publishFindings(findings) from its first statement to its return
CoalPublish ==
  /\ published = "never"
  /\ \E r \in {PublishAll(findings, [diag |-> diag, META |-> META, status |-> status],
                           docs, config)} :
        /\ diag' = r.diag
        /\ META' = r.META
        /\ status' = r.status
        /\ published' = IF r.threw THEN "threw" ELSE "once"
  /\ before' = [diag |-> diag, META |-> META]
  /\ UNCHANGED <<calls, docs, config, collection, scans, items, normalized, findings,
                 fix, cli>>

NextCoal == CoalPublish \/ (published # "never" /\ ClearAllDiagnostics)

SpecCoal == InitCoal /\ [][NextCoal]_vars

(* ------------------------------ claims ------------------------------- *)

\* some finding of fs is a finding of the file u
HasFindingFor(fs, u) ==
  \E i \in 1..Len(fs) : fs[i].file # <<>> /\ NormPath(fs[i].file) = u

\* what provideCodeActions reads for the file u (lines 452 and 465): its
\* annotations, each with the record metaForDiagnostic returns
Visible(d, m, u) ==
  [i \in 1..Len(d[u]) |-> [diagnostic |-> d[u][i], meta |-> metaForDiagnostic(m, u, d[u][i])]]

\* the state one call publishFindings(fs) leaves when it runs on its own
ResultOf(fs) ==
  PublishAll(fs, [diag |-> Cleared, META |-> EmptyMap, status |-> status], docs, config)

Returned == published \in {"once", "twice"}

\* C1 as stated: when publishFindings(findings) has returned, every file with
\* no finding in `findings` still has the entry it had before the call.
C1_OtherFilesKept ==
  Returned => \A u \in Uris : ~HasFindingFor(findings, u) => diag[u] = before.diag[u]

\* C1 amended: when publishFindings(findings), run with no other call at its
\* awaits, has returned, every file with no finding in `findings` has an empty
\* entry, whatever entry it had before.
C1_OtherFilesEmptied ==
  Returned => \A u \in Uris : ~HasFindingFor(findings, u) => diag[u] = <<>>

\* a publish of findings of a.py alone has returned, and b.py had annotations
\* when it began
C1_Witness ==
  /\ published = "once"
  /\ findings # <<>>
  /\ ~HasFindingFor(findings, UriB)
  /\ before.diag[UriB] # <<>>
  /\ diag[UriA] # <<>>

C3_VisibleStateIsOnePublish ==
  \A u \in Uris :
    \/ Visible(diag, META, u) = <<>>
    \/ \E c \in Calls :
         /\ calls[c].pc \notin {"idle", "cli"}
         /\ \E r \in {ResultOf(calls[c].findings)} :
              Visible(diag, META, u) = Visible(r.diag, r.META, u)

\* C4: when two scans of the same file have both been published to the end,
\* what the file shows (annotations and their metadata) is what publishing the
\* findings of the scan whose process closed last leaves.
C4_LastClosedScanWins ==
  \A c, d \in Calls :
    ( /\ calls[c].pc = "done" /\ calls[d].pc = "done"
      /\ calls[c].target \in Uris /\ calls[d].target = calls[c].target
      /\ calls[c].closeSeq > calls[d].closeSeq )
    => \E r \in {ResultOf(calls[c].findings)} :
         Visible(diag, META, calls[c].target) = Visible(r.diag, r.META, calls[c].target)

\* C5: publishFindings(findings) run a second time, with documents and
\* configuration unchanged, leaves every file's annotation list as the first
\* run left it.
C5_Idempotent ==
  published = "twice" => diag = before.diag

\* a second run has returned, the first having left annotations
C5_Witness == published = "twice" /\ before.diag[UriA] # <<>> /\ Len(findings) > 1

\* the fields a finding is deduplicated by
Tuple(r) == <<r.line, r.start_col, r.end_col, r.code, r.message>>

\* no item was dropped as a duplicate, so that the i-th record of `normalized`
\* is the normalized i-th item
NoneDropped == normalized # <<>> /\ Len(normalized) = Len(items)

\* C6: the records that enter coalescing hold no two records with the same
\* (line, start_col, end_col, code, message), and two items identical in these
\* fields leave one record.
C6_NoDuplicateTuples ==
  /\ \A i, j \in 1..Len(normalized) :
       i # j => Tuple(normalized[i]) # Tuple(normalized[j])
  /\ ( /\ normalized # <<>>
       /\ \A i, j \in 1..Len(items) : Tuple(items[i]) = Tuple(items[j]) )
     => Len(normalized) = 1

\* C7: a raw finding whose end_col is not greater than its start_col is
\* normalized to a span exactly one column wide.
C7_ClampedSpanIsOneWide ==
  NoneDropped
    => \A i \in 1..Len(items) :
         items[i].end_col <= items[i].start_col
           => normalized[i].end_col = normalized[i].start_col + 1

\* C8: every normalized record has line >= 1, start_col >= 0, end_col >
\* start_col and a lower-case severity, which is "warning" when the raw finding
\* has none.
C8_NormalizedInRange ==
  /\ \A j \in 1..Len(normalized) :
       /\ normalized[j].line >= 1
       /\ normalized[j].start_col >= 0
       /\ normalized[j].end_col > normalized[j].start_col
       /\ normalized[j].severity \in {"error", "warning", "info", "hint"}
  /\ NoneDropped
       => \A i \in 1..Len(items) :
            items[i].severity = "" => normalized[i].severity = "warning"

\* the codes a comma-joined code string lists
RECURSIVE CodesOf(_, _)
CodesOf(str, cur) ==
  IF str = <<>> THEN {cur}
  ELSE IF Head(str) = "," THEN {cur} \cup CodesOf(Tail(str), <<>>)
  ELSE CodesOf(Tail(str), Append(cur, Head(str)))

\* finding f is one publishFindings looks at (it names a file and is not a
\* hidden timeout) and has a position the normalizer leaves as it is
Considered(f) ==
  /\ f.file # <<>>
  /\ ~(config.hideTimeouts /\ isTimeout(f))
  /\ f.line >= 1 /\ f.start_col >= 0 /\ f.end_col > f.start_col

\* finding f is published: an annotation of its file, on its line, covers its
\* span and lists its code
Published(f) ==
  \E i \in 1..Len(diag[NormPath(f.file)]) :
    LET d == diag[NormPath(f.file)][i]
    IN /\ d.line = f.line - 1
       /\ d.start <= f.start_col /\ f.end_col <= d.end
       /\ OrStr(f.code, EC999) \in CodesOf(d.code, <<>>)

\* the 1-based lines L-2 .. L of the document of finding f that exist
Window(f) ==
  LET doc == docs[NormPath(f.file)]
  IN IF doc.open THEN {i \in (f.line - 2)..f.line : 1 <= i /\ i <= Len(doc.lines)} ELSE {}

\* a line of the window of f contains the marker text for the code of f
MarkerInWindow(f) ==
  \E i \in Window(f) : LineMatches(docs[NormPath(f.file)].lines[i], OrStr(f.code, EC999))

\* the suppression check of finding f cannot read its document, or cannot read
\* line L of it
CannotRead(f) ==
  LET doc == docs[NormPath(f.file)]
  IN ~doc.open \/ f.line > Len(doc.lines)

\* C9: when publishFindings(findings) has returned, a finding it looked at is
\* left unpublished if line L, L-1 or L-2 of its document contains the marker
\* for its code, and is published if none of these lines does (a marker on line
\* L-3 or before, or after L, does not count).
C9_SuppressedIffMarkerInWindow ==
  Returned
    => \A i \in 1..Len(findings) :
         (Considered(findings[i]) /\ ~CannotRead(findings[i]))
           => (MarkerInWindow(findings[i]) <=> ~Published(findings[i]))

CodeSymbols == {"EC00", "EC999", "1", "2"}

\* line t contains the marker followed by exactly `code`: the code ends the
\* line or is followed by a symbol that cannot continue a code
NamesExactly(t, code) ==
  \E m \in {MarkerSpace(code), MarkerNoSpace(code)} :
    \E i \in 0..(Len(t) - Len(m)) :
      /\ SubSeq(t, i + 1, i + Len(m)) = m
      /\ (i + Len(m) = Len(t) \/ t[i + Len(m) + 1] \notin CodeSymbols)

\* C10: with coalescing off (every finding is checked on its own code), when
\* publishFindings(findings) has returned, a finding it looked at is left
\* unpublished only if a line of its window names exactly its code.
C10_DroppedOnlyByExactCode ==
  (Returned /\ ~config.coalesceOverlapping)
    => \A i \in 1..Len(findings) :
         (Considered(findings[i]) /\ ~Published(findings[i]))
           => \E k \in Window(findings[i]) :
                NamesExactly(docs[NormPath(findings[i].file)].lines[k],
                             OrStr(findings[i].code, EC999))

\* C9 with coalescing off
C9_Uncoalesced == ~config.coalesceOverlapping => C9_SuppressedIffMarkerInWindow

\* no finding of the list has a position the normalizer would change
AllPositioned ==
  \A i \in 1..Len(findings) :
    /\ findings[i].line >= 1
    /\ findings[i].start_col >= 0
    /\ findings[i].end_col > findings[i].start_col

\* C11: publishFindings(findings), called with findings at valid positions,
\* returns; every finding it looked at whose document cannot be opened, or whose
\* line cannot be read, is published; and so is every finding of another file
\* that has no marker in its window.
C11_UnreadableIsNotSuppressed ==
  (published \in {"once", "twice", "threw"} /\ AllPositioned)
    => /\ Returned
       /\ \A i \in 1..Len(findings) :
            (Considered(findings[i]) /\ CannotRead(findings[i]))
              => /\ Published(findings[i])
                 /\ \A j \in 1..Len(findings) :
                      ( /\ Considered(findings[j])
                        /\ NormPath(findings[j].file) # NormPath(findings[i].file)
                        /\ ~MarkerInWindow(findings[j]) )
                      => Published(findings[j])

\* a publish has returned with a finding of a.py, whose document cannot be
\* opened, and a finding of b.py
C11_Witness ==
  /\ published = "once"
  /\ ~docs[UriA].open
  /\ HasFindingFor(findings, UriA) /\ HasFindingFor(findings, UriB)
  /\ diag[UriA] # <<>> /\ diag[UriB] # <<>>

\* C12: the batch of insertions fix-all builds never inserts the same guard
\* twice at the same position (line, column) of the document.
C12_GuardInsertedOncePerPosition ==
  \A i, j \in 1..Len(fix.edit) : i # j => fix.edit[i] # fix.edit[j]

\* a is b with some elements left out: same elements, same relative order
RECURSIVE IsSubsequence(_, _)
IsSubsequence(a, b) ==
  IF a = <<>> THEN TRUE
  ELSE IF b = <<>> THEN FALSE
  ELSE IF Head(a) = Head(b) THEN IsSubsequence(Tail(a), Tail(b))
  ELSE IsSubsequence(a, Tail(b))

\* C13: after a proposed edit or the fix-all batch is applied, every line the
\* document had before is still there, unmodified and in the same relative
\* order, and the document grew by exactly the whole lines the edit inserts.
C13_InsertionOnly ==
  fix.edited =>
    /\ IsSubsequence(fix.docBefore, docs[UriA].lines)
    /\ Len(docs[UriA].lines) = Len(fix.docBefore) + AddedLines(fix.editOf)

C13_Witness ==
  /\ fix.edited
  /\ fix.last = "fixall"
  /\ Len(fix.editOf) > 1
  /\ docs[UriA].lines # fix.docBefore

\* the whole lines an insert adds
InsertLines(e) ==
  LET sl == SplitLines(e.text, <<>>) IN SubSeq(sl, 1, Len(sl) - 1)

ContainsBlock(lines, block) ==
  \E k \in 0..(Len(lines) - Len(block)) : SubSeq(lines, k + 1, k + Len(block)) = block

\* C14: fix-all applies its batch as one edit. When applying fails the
\* document is as it was, the warning is shown and the command neither
\* reports success nor goes on to save and re-scan; when it succeeds every
\* insertion of the batch is in the document.
C14_FixAllIsAllOrNothing ==
  /\ fix.last = "failed" =>
       /\ docs[UriA].lines = fix.docBefore
       /\ fix.shown = "could not apply edits"
       /\ fix.pc # "rescanning"
       /\ ~fix.edited
  /\ fix.last = "fixall" =>
       /\ \A i \in 1..Len(fix.editOf) :
            ContainsBlock(docs[UriA].lines, InsertLines(fix.editOf[i]))
       /\ Len(docs[UriA].lines) = Len(fix.docBefore) + AddedLines(fix.editOf)
       /\ fix.shown = "applied guards"

C14_Witness ==
  /\ fix.last = "failed"
  /\ fix.pc = "done"
  /\ Len(fix.editOf) > 1
  /\ diag[UriA] # <<>>

\* C15: whenever a fix (a quick-fix action or fix-all) has been applied to the
\* document, a scan of the edited document and a publish of its findings
\* eventually follow.
C15_EditIsFollowedByScan == fix.edited ~> ~fix.edited

\* the fix-all half of C15
C15_FixAllIsFollowedByScan == (fix.edited /\ fix.last = "fixall") ~> ~fix.edited

\* the actions the light bulb offers at a caret in the active document
OfferedAt(caret) == provideCodeActions(diag, docs[UriA], UriA, caret).actions

IsGuard(a) == a.kind \in {"zero", "bounds"}

\* C16: no guard edit (zero-denominator guard or bounds guard) is proposed for
\* an annotation of severity info, by the light bulb or by fix-all.
C16_NoGuardForInfo ==
  /\ \A caret \in Carets : \A k \in 1..Len(OfferedAt(caret)) :
       LET a == OfferedAt(caret)[k]
       IN IsGuard(a) => \A i \in 1..Len(a.diagnostic) :
                          a.diagnostic[i].severity # "Information"
  /\ fix.pc = "applying" =>
       \E i \in 1..Len(diag[UriA]) : diag[UriA][i].severity # "Information"

RECURSIVE KindsOf(_)
KindsOf(as) == IF as = <<>> THEN <<>> ELSE <<Head(as).kind>> \o KindsOf(Tail(as))

\* the engine reported exactly one finding, a warning with code EC001, and it
\* is published as the only annotation of the file
SingleWarningPublished ==
  /\ fix.last = "scan"
  /\ Len(findings) = 1
  /\ findings[1].severity = "warning" /\ findings[1].code = EC001
  /\ Len(diag[UriA]) = 1

\* C17: after a single non-suppressed warning with code EC001 is published,
\* the edits proposed at its annotation are exactly one zero guard and one
\* suppression, and nothing else.
C17_ZeroGuardAndSuppressOnly ==
  SingleWarningPublished =>
    KindsOf(OfferedAt([line |-> diag[UriA][1].line, character |-> diag[UriA][1].start]))
      = <<"zero", "suppress">>

\* finding f is one of the findings annotation d was made from: same line and
\* severity, its span inside the annotation's, its code among the annotation's
ProducedFrom(f, d) ==
  /\ f.line - 1 = d.line
  /\ DiagnosticSeverity(f.severity) = d.severity
  /\ d.start <= f.start_col /\ f.end_col <= d.end
  /\ Includes(d.code, f.code)

\* an annotation of the file covers finding f
Annotated(f) == \E i \in 1..Len(diag[UriA]) : ProducedFrom(f, diag[UriA][i])

\* the suppress edit of an annotation was applied and then the findings the
\* annotation came from were published again, at their line or one line down
SuppressRoundTrip ==
  /\ fix.last = "republished"
  /\ \E sh \in Shifts : findings = Shifted(fix.producedBy, sh)

\* C18: after the suppress edit of a published annotation is applied and the
\* findings that produced it are published again (at their original line or
\* shifted down by the inserted line), none of those findings is annotated.
C18_SuppressRoundTrip ==
  SuppressRoundTrip =>
    \A i \in 1..Len(findings) :
      (\E sh \in Shifts : ProducedFrom(Shifted(fix.producedBy, sh)[i], fix.picked[1]))
        => ~Annotated(findings[i])

C18_Witness ==
  /\ SuppressRoundTrip
  /\ config.coalesceOverlapping
  /\ Includes(fix.picked[1].code, <<",">>)
  /\ findings = Shifted(fix.producedBy, 1)
  /\ Len(findings) > 1
  /\ \A i \in 1..Len(findings) : ~Annotated(findings[i])

\* the annotations of severity sev in the whole annotation state
AnnotationsOf(sev) ==
  UNION {{<<u, i>> : i \in {j \in DOMAIN diag[u] : diag[u][j].severity = sev}} : u \in Uris}

\* C19: with no publish or clear-all in progress, the displayed counters are
\* the number of error annotations and the number of warning annotations of
\* the whole annotation state.
C19_CountersMatchAnnotations ==
  /\ status.errors = Cardinality(AnnotationsOf("Error"))
  /\ status.warnings = Cardinality(AnnotationsOf("Warning"))

\* the scan failed: the engine did not start, exited non-zero, or printed
\* something that is not a finding document
ScanFailed == cli.event = "error" \/ cli.code # 0 \/ cli.out # "doc"

\* C20: a scan does not hang and no exception leaves the extension; a failed
\* scan resolves to the empty finding list and writes a log entry about the
\* failure, and the findings then published are none.
C20_FailedScanIsEmptyAndLogged ==
  /\ ~cli.escaped
  /\ cli.pc # "hung"
  /\ (cli.pc \in {"resolved", "done"} /\ ScanFailed) =>
       /\ cli.resolved = <<EmptyDocument>>
       /\ \E i \in 1..Len(cli.log) : cli.log[i] = ParseErrorLine
       /\ cli.pc = "done" => findings = <<>>

\* C21: with showInfo false no annotation of severity info is in the
\* published annotation state.
C21_NoInfoAnnotationUnlessShown ==
  ~config.showInfo =>
    \A u \in Uris : \A i \in 1..Len(diag[u]) : diag[u][i].severity # "Information"

\* the same for the collection the analyze variant publishes to
C21_AnalyzeFiltersInfo ==
  \A s \in 1..Len(scans) :
    (scans[s].pc = "done" /\ ~scans[s].showInfo) =>
      \A i \in 1..Len(collection[scans[s].uri]) :
        collection[scans[s].uri][i].severity # "Information"

Smaller(a, b) == IF a <= b THEN a ELSE b

\* the spans of findings f and g overlap, touch, or lie at most one column apart
Close(f, g) == f.start_col <= g.end_col + 1 /\ g.start_col <= f.end_col + 1

SameGroup(f, g) ==
  /\ NormPath(f.file) = NormPath(g.file)
  /\ f.line = g.line
  /\ ToLowerCase(f.severity) = ToLowerCase(g.severity)

\* the annotations of finding f's file whose line and severity are f's and
\* whose span contains f's
CoveringOf(f) ==
  {k \in DOMAIN diag[NormPath(f.file)] :
     LET d == diag[NormPath(f.file)][k]
     IN /\ d.line = f.line - 1
        /\ d.severity = DiagnosticSeverity(ToLowerCase(f.severity))
        /\ d.start <= f.start_col /\ f.end_col <= d.end}

\* no marker in finding f's window names f's code
NotSuppressed(f) == ~MarkerInWindow(f)

\* C22: with coalescing on, two non-suppressed findings of one file, line and
\* severity whose spans overlap, touch or lie at most one column apart are
\* covered by one and the same annotation, and when they are all there is on
\* that line its span runs from the smaller start_col to the larger end_col.
C22_CloseFindingsMerge ==
  (published = "once" /\ config.coalesceOverlapping) =>
    \A i, j \in 1..Len(findings) :
      LET f == findings[i]
          g == findings[j]
      IN (f # g /\ SameGroup(f, g) /\ Close(f, g) /\ NotSuppressed(f) /\ NotSuppressed(g))
           => /\ CoveringOf(f) = CoveringOf(g)
              /\ Cardinality(CoveringOf(f)) = 1
              /\ (\A k \in 1..Len(findings) : findings[k] \in {f, g}) =>
                   \E k \in CoveringOf(f) :
                     /\ diag[UriA][k].start = Smaller(f.start_col, g.start_col)
                     /\ diag[UriA][k].end = Max(f.end_col, g.end_col)

\* C22 for documents without a marker
C22_Unmarked == docs[UriA] = DocWith(0, PlainLine) => C22_CloseFindingsMerge

\* the findings reached from those of S over at most n steps between findings
\* of one group whose spans are close
RECURSIVE ReachFrom(_, _)
ReachFrom(S, n) ==
  IF n = 0 THEN S
  ELSE ReachFrom(S \cup {findings[k] : k \in {m \in 1..Len(findings) :
                            \E x \in S : SameGroup(x, findings[m]) /\ Close(x, findings[m])}},
                 n - 1)

\* f and g are joined by a chain of close findings of their group
Linked(f, g) == g \in ReachFrom({f}, Len(findings))

AnnotationAt(f, k) == diag[NormPath(f.file)][k]

\* C23: with coalescing on, two non-suppressed findings of one line and
\* severity that are more than one column apart, with nothing bridging the
\* gap, are covered by two different annotations, a finding that merges with
\* nothing having its own span; an annotation takes nothing from a finding of
\* another line or severity.
C23_DistantFindingsStaySeparate ==
  (published = "once" /\ config.coalesceOverlapping) =>
    \A i, j \in 1..Len(findings) :
      LET f == findings[i]
          g == findings[j]
      IN /\ (SameGroup(f, g) /\ ~Linked(f, g) /\ NotSuppressed(f) /\ NotSuppressed(g))
              => /\ CoveringOf(f) # {} /\ CoveringOf(g) # {}
                 /\ CoveringOf(f) \cap CoveringOf(g) = {}
                 /\ ReachFrom({f}, Len(findings)) = {f} =>
                      \A k \in CoveringOf(f) : /\ AnnotationAt(f, k).start = f.start_col
                                               /\ AnnotationAt(f, k).end = f.end_col
         /\ (~SameGroup(f, g) /\ NormPath(f.file) = NormPath(g.file))
              => \A k \in CoveringOf(f) :
                   /\ k \notin CoveringOf(g)
                   /\ Includes(AnnotationAt(f, k).code, g.code)
                        => \E h \in ReachFrom({f}, Len(findings)) : h.code = g.code

\* C23 for documents without a marker
C23_Unmarked == docs[UriA] = DocWith(0, PlainLine) => C23_DistantFindingsStaySeparate

\* C24: with coalescing on, a finding whose code no marker in its window
\* names is covered by a published annotation, and a finding whose code a
\* marker in its window names gives its code to no published annotation,
\* also when findings of both kinds overlap on one line and severity.
C24_SuppressedPerFinding ==
  (published = "once" /\ config.coalesceOverlapping) =>
    \A i \in 1..Len(findings) :
      LET f == findings[i]
      IN /\ NotSuppressed(f) => CoveringOf(f) # {}
         /\ MarkerInWindow(f) =>
              \A k \in CoveringOf(f) : ~Includes(AnnotationAt(f, k).code, f.code)

\* with coalescing off suppression is per finding
C24_Uncoalesced ==
  (published = "once" /\ ~config.coalesceOverlapping) =>
    \A i \in 1..Len(findings) :
      LET f == findings[i]
      IN /\ NotSuppressed(f) => CoveringOf(f) # {}
         /\ MarkerInWindow(f) =>
              \A k \in CoveringOf(f) : ~Includes(AnnotationAt(f, k).code, f.code)

\* in `new` the guard whose first line is IF-line sits right after line L of
\* `old`, indented as the line that followed line L
GuardAfterLine(old, new, L) ==
  /\ Len(new) = Len(old) + 2
  /\ SubSeq(new, 1, L) = SubSeq(old, 1, L)
  /\ SubSeq(new, L + 3, Len(new)) = SubSeq(old, L + 1, Len(old))
  /\ new[L + 1] = LeadingBlanks(old[L + 1]) \o <<"if b == 0:">>

\* C25: after the zero-denominator guard for an annotation of 1-based line L
\* is applied, the guard's lines stand immediately after line L, indented as
\* the line that followed it.
C25_GuardInsertedAfterLine ==
  (fix.edited /\ fix.last = "zero") =>
    GuardAfterLine(fix.docBefore, docs[UriA].lines, fix.picked[1].line + 1)

\* the older zero-guard fix (quickFixesForFinding) does insert after line L
C25_ApplyFixInsertsAfter ==
  \A i \in 1..Len(FixFindings) :
    GuardAfterLine(FixDoc.lines,
                   ApplyEdits(FixDoc.lines, <<ZeroGuardApply(FixFindings[i], FixDoc)>>),
                   FixFindings[i].line)

\* the five fields of the dedup rule, a missing code being EC999
FiveFields(it) == <<it.line, it.start_col, it.end_col, OrStr(it.code, EC999), it.message>>

\* item i of the file is among the records that enter coalescing
Survives(i) == \E k \in 1..Len(normalized) : normalized[k] = NormalizeItem(items[i])

\* C26: an item is dropped by the dedup step only if an earlier item of the
\* file has the same line, start_col, end_col, code and message.
C26_OnlyTrueDuplicatesDropped ==
  normalized # <<>> =>
    \A i \in 1..Len(items) :
      ~Survives(i) => \E j \in 1..(i - 1) : FiveFields(items[j]) = FiveFields(items[i])

\* no marker names the code of any finding published
NoneSuppressed == \A i \in 1..Len(findings) : NotSuppressed(findings[i])

\* annotations d and e of one line and severity lie more than one column apart
Apart(d, e) == d.end + 1 < e.start \/ e.end + 1 < d.start

\* C27: with coalescing on and no finding suppressed, two annotations of a
\* file with the same line and severity lie more than one column apart, and
\* every finding's span lies inside exactly one annotation of its line and
\* severity, whose code string contains the finding's code.
C27_CoalescerOutput ==
  (published = "once" /\ config.coalesceOverlapping /\ NoneSuppressed) =>
    /\ \A k, m \in DOMAIN diag[UriA] :
         (k # m /\ diag[UriA][k].line = diag[UriA][m].line
                /\ diag[UriA][k].severity = diag[UriA][m].severity)
           => Apart(diag[UriA][k], diag[UriA][m])
    /\ \A i \in 1..Len(findings) :
         /\ Cardinality(CoveringOf(findings[i])) = 1
         /\ \A k \in CoveringOf(findings[i]) :
              Includes(diag[UriA][k].code, OrStr(findings[i].code, EC999))

C27_Witness ==
  /\ published = "once" /\ config.coalesceOverlapping /\ NoneSuppressed
  /\ Len(findings) = 3
  /\ \A i \in 1..3 : findings[i].line = 2 /\ findings[i].severity = "warning"
  /\ Len(diag[UriA]) = 2
  /\ \E k \in 1..2 : Includes(diag[UriA][k].code, <<",">>)

\* the metadata lookup for annotation d of file u gives a record, and d is the
\* annotation built from that record
MetaMatches(u, d) ==
  LET m == metaForDiagnostic(META, u, d)
  IN m # <<>> /\ MkDiagnostic(m[1]) = d

\* C28: after a publish, for every annotation of every file the metadata
\* lookup by (path, line, start column, end column) returns the record the
\* annotation was built from.
C28_MetaIsOfItsAnnotation ==
  published = "once" =>
    \A u \in Uris : \A k \in DOMAIN diag[u] : MetaMatches(u, diag[u][k])

\* C28 for files whose annotations have pairwise different spans
C28_DistinctSpans ==
  (published = "once"
     /\ \A u \in Uris : \A k, m \in DOMAIN diag[u] :
          k # m => <<diag[u][k].line, diag[u][k].start, diag[u][k].end>>
                     # <<diag[u][m].line, diag[u][m].start, diag[u][m].end>>)
    => \A u \in Uris : \A k \in DOMAIN diag[u] : MetaMatches(u, diag[u][k])

====
